---- MODULE Spec2Model ----
(***************************************************************************)
(* Inference-and-monitoring service of the Cats vs Dogs classifier         *)
(* ("Assignment 2/api/main.py" with "Assignment 2/src/inference.py").      *)
(*                                                                         *)
(* Numbers that are floats in the program are fixed-point here: a float is *)
(* an integer count of hundredths (0.8 is 80, 12.05 ms is 1205).  A text   *)
(* line of logs/predictions.jsonl is a sequence of tokens, a token is a    *)
(* record [k, s] whose s is the token's characters.                        *)
(*                                                                         *)
(* Several specifications share the variables.  Spec is the service, a     *)
(* request a step.  SpecSteps is the prediction handler statement by       *)
(* statement with several requests in flight.  SpecInference is a          *)
(* ModelInference instance called directly, of the binary variant          *)
(* ("Assignment 2/src/inference.py") or the multi-class one                 *)
(* ("src/inference.py"), its floats in scaled-down binary floating point.  *)
(* SpecConfidence, SpecNormalize, SpecTrain and SpecExtract are            *)
(* get_prediction_with_confidence, normalize_pixel_values, the training    *)
(* loop of train_model and extract_images, each on inputs drawn by its     *)
(* initial predicate.                                                      *)
(***************************************************************************)
EXTENDS Integers, Sequences, FiniteSets, Bags, TLC

VARIABLES
    phase,            \* "starting" | "serving" | "crashed"
    artifact,         \* the file at MODEL_PATH: "missing" | "corrupt" | "ok"
    model_inference,  \* the global handle of api/main.py
    logExists,        \* logs/predictions.jsonl exists
    logWritable,      \* logs/ can be created and the file opened for append
    log,              \* the lines of logs/predictions.jsonl
    req,              \* the request handled last
    resp,             \* the response to it
    calls,            \* what the handler of that request invoked
    lastStats,        \* the /stats calls answered since the last append (0, 1,
                      \* 2 for more) and the body of the last of them
    workers,          \* the prediction requests in flight, handler step by step
    variant,          \* which inference.py the instance is of
    ret,              \* what the last call on the ModelInference instance gave
    history,          \* the predictions the instance has returned
    metrics,          \* what the request handled last added to the Prometheus
                      \* counters and to the latency histogram
    train,            \* a run of train_model, epoch by epoch
    extract,          \* a run of extract_images, item by item
    norm              \* a call of normalize_pixel_values

\* the state of the service as a whole request changes it
serviceVars == <<phase, artifact, model_inference, logExists, logWritable, log,
                 req, resp, calls, lastStats, metrics>>

\* the state of the training and data scripts
scriptVars == <<train, extract, norm>>

\* the state of a ModelInference instance used on its own
objectVars == <<variant, ret, history>>

vars == <<serviceVars, workers, objectVars, scriptVars>>

----------------------------------------------------------------------------
(* Bounds *)

\* lines already in logs/predictions.jsonl when the process starts
MaxInitLines == 1
\* the log is not appended to beyond this many lines
MaxLogLines == 2
\* significant bits of a network output (a float32 has 24)
SigBits == 3
\* significant bits of a Python float (a double has 53)
Precision == 5
\* the smallest positive probability is 2^-FracBits
FracBits == 8
\* the exponentials of the logits are whole numbers up to this
MaxWeight == 6
\* predictions counted on one ModelInference instance
MaxPredictions == 2
\* elements of an image array
MaxPixels == 3
\* the largest element of an image array
MaxPixel == 3
\* epochs of a training run
MaxEpochs == 3
\* items of a dataset
MaxItems == 4
\* the largest max_per_class
MaxPerClass == 2

\* outputs of the multi-class network: nn.Linear(128, 2)
NumClasses == 2

----------------------------------------------------------------------------
(* Python values as they appear in a log entry *)

IntV(n) == [t |-> "int", n |-> n, s |-> <<>>]
FloatV(h) == [t |-> "float", n |-> h, s |-> <<>>]
StrV(cs) == [t |-> "str", n |-> 0, s |-> cs]

DigitChar(d) == <<"0", "1", "2", "3", "4", "5", "6", "7", "8", "9">>[d + 1]

DigitVal(c) ==
    CASE c = "0" -> 0 [] c = "1" -> 1 [] c = "2" -> 2 [] c = "3" -> 3
      [] c = "4" -> 4 [] c = "5" -> 5 [] c = "6" -> 6 [] c = "7" -> 7
      [] c = "8" -> 8 [] c = "9" -> 9 [] OTHER -> -1

IsDigit(c) == DigitVal(c) >= 0

RECURSIVE Digits(_)
\* the decimal text of a natural number
Digits(n) ==
    IF n < 10 THEN <<DigitChar(n)>>
    ELSE Digits(n \div 10) \o <<DigitChar(n % 10)>>

RECURSIVE ParseNat(_)
ParseNat(cs) ==
    IF cs = <<>> THEN 0
    ELSE 10 * ParseNat(SubSeq(cs, 1, Len(cs) - 1)) + DigitVal(cs[Len(cs)])

\* repr of a float: integer part, ".", the fraction without trailing zeros
\* (at least one digit)
FormatFloat(h) ==
    LET fr == h % 100
    IN  Digits(h \div 100) \o <<".">> \o
        (IF fr % 10 = 0 THEN <<DigitChar(fr \div 10)>>
         ELSE <<DigitChar(fr \div 10), DigitChar(fr % 10)>>)

\* str(x) of an int
PyStr(v) == StrV(Digits(v.n))

----------------------------------------------------------------------------
(* json.dumps of a flat dict, json.loads of a line *)

Tok(k, s) == [k |-> k, s |-> s]
Punct(c) == Tok("punct", <<c>>)
NL == Tok("ws", <<"\n">>)

DumpValue(v) ==
    CASE v.t = "int" -> Tok("num", Digits(v.n))
      [] v.t = "float" -> Tok("num", FormatFloat(v.n))
      [] OTHER -> Tok("str", v.s)

RECURSIVE DumpMembers(_)
DumpMembers(entries) ==
    IF entries = <<>> THEN <<>>
    ELSE LET e == entries[1]
             one == <<Tok("str", <<e[1]>>), Punct(":"), DumpValue(e[2])>>
         IN  IF Len(entries) = 1 THEN one
             ELSE one \o <<Punct(",")>> \o DumpMembers(Tail(entries))

\* entries: the dict's items in insertion order, each <<key, value>>
JsonDumps(entries) == <<Punct("{")>> \o DumpMembers(entries) \o <<Punct("}")>>

RECURSIVE StripLeft(_)
StripLeft(toks) ==
    IF toks # <<>> /\ toks[1].k = "ws" THEN StripLeft(Tail(toks)) ELSE toks

RECURSIVE StripRight(_)
StripRight(toks) ==
    IF toks # <<>> /\ toks[Len(toks)].k = "ws"
    THEN StripRight(SubSeq(toks, 1, Len(toks) - 1))
    ELSE toks

\* str.strip()
Strip(toks) == StripRight(StripLeft(toks))

DotAt(cs) == {i \in 1..Len(cs) : cs[i] = "."}

NumberOk(cs) ==
    /\ cs # <<>>
    /\ \A i \in 1..Len(cs) : IsDigit(cs[i]) \/ cs[i] = "."
    /\ Cardinality(DotAt(cs)) <= 1
    /\ \A i \in DotAt(cs) : 1 < i /\ i < Len(cs) /\ Len(cs) - i <= 2

ParseNumber(cs) ==
    IF DotAt(cs) = {} THEN IntV(ParseNat(cs))
    ELSE LET i == CHOOSE j \in DotAt(cs) : TRUE
             fr == SubSeq(cs, i + 1, Len(cs))
         IN  FloatV(100 * ParseNat(SubSeq(cs, 1, i - 1))
                    + (IF Len(fr) = 1 THEN 10 * ParseNat(fr) ELSE ParseNat(fr)))

ScalarOk(tok) == tok.k = "str" \/ (tok.k = "num" /\ NumberOk(tok.s))

ParseScalar(tok) == IF tok.k = "str" THEN StrV(tok.s) ELSE ParseNumber(tok.s)

\* toks is  key ":" scalar ("," key ":" scalar)*
RECURSIVE MembersOk(_)
MembersOk(toks) ==
    /\ Len(toks) >= 3
    /\ toks[1].k = "str"
    /\ toks[2] = Punct(":")
    /\ ScalarOk(toks[3])
    /\ \/ Len(toks) = 3
       \/ /\ Len(toks) > 4
          /\ toks[4] = Punct(",")
          /\ MembersOk(SubSeq(toks, 5, Len(toks)))

\* toks is  scalar ("," scalar)*
RECURSIVE ElementsOk(_)
ElementsOk(toks) ==
    /\ Len(toks) >= 1
    /\ ScalarOk(toks[1])
    /\ \/ Len(toks) = 1
       \/ /\ Len(toks) > 2
          /\ toks[2] = Punct(",")
          /\ ElementsOk(SubSeq(toks, 3, Len(toks)))

RECURSIVE ParseMembers(_)
\* the dict of well-formed members: a later duplicate key wins
ParseMembers(toks) ==
    LET k == toks[1].s[1]
        v == ParseScalar(toks[3])
    IN  IF Len(toks) = 3 THEN (k :> v)
        ELSE ParseMembers(SubSeq(toks, 5, Len(toks))) @@ (k :> v)

RECURSIVE MemberKeys(_)
MemberKeys(toks) ==
    IF Len(toks) <= 3 THEN {toks[1].s[1]}
    ELSE {toks[1].s[1]} \cup MemberKeys(SubSeq(toks, 5, Len(toks)))

NoDict == <<>>

\* json.loads: raised, or the value (a dict with its keys, or something that
\* is no dict)
JsonLoads(toks) ==
    LET n == Len(toks)
        inner == SubSeq(toks, 2, n - 1)
    IN  IF n >= 2 /\ toks[1] = Punct("{") /\ toks[n] = Punct("}")
             /\ (n = 2 \/ MembersOk(inner))
        THEN [raised |-> FALSE, isDict |-> TRUE,
              keys |-> IF n = 2 THEN {} ELSE MemberKeys(inner),
              dict |-> IF n = 2 THEN NoDict ELSE ParseMembers(inner)]
        ELSE IF \/ (n = 1 /\ ScalarOk(toks[1]))
                \/ (n >= 2 /\ toks[1] = Punct("[") /\ toks[n] = Punct("]")
                    /\ (n = 2 \/ ElementsOk(inner)))
        THEN [raised |-> FALSE, isDict |-> FALSE, keys |-> {}, dict |-> NoDict]
        ELSE [raised |-> TRUE, isDict |-> FALSE, keys |-> {}, dict |-> NoDict]

----------------------------------------------------------------------------
(* The prediction log: log_prediction_to_file and read_prediction_stats *)

\* datetime.utcnow().isoformat()
Timestamp == StrV(<<"2026-01-01T00:00:00">>)

\* an entry that records the time in whole milliseconds
LogEntryWholeMs(prediction, prediction_label, confidence, inference_time_ms) ==
    << <<"timestamp", Timestamp>>,
       <<"prediction", IntV(prediction)>>,
       <<"prediction_label", StrV(<<prediction_label>>)>>,
       <<"confidence", FloatV(confidence)>>,
       <<"inference_time_ms", IntV(inference_time_ms \div 100)>> >>

\* log_entry
LogEntry(prediction, prediction_label, confidence, inference_time_ms) ==
    << <<"timestamp", Timestamp>>,
       <<"prediction", IntV(prediction)>>,
       <<"prediction_label", StrV(<<prediction_label>>)>>,
       <<"confidence", FloatV(confidence)>>,
       <<"inference_time_ms", FloatV(inference_time_ms)>> >>

LogLine(prediction, prediction_label, confidence, inference_time_ms) ==
    JsonDumps(LogEntry(prediction, prediction_label, confidence,
                       inference_time_ms)) \o <<NL>>

\* a logger whose failure escapes to the caller
LogPredictionToFileUnguarded(writable, exists, lines, prediction, prediction_label, confidence, inference_time_ms) ==
    IF ~writable
    THEN [raised |-> TRUE, exists |-> exists, lines |-> lines]
    ELSE [raised |-> FALSE, exists |-> TRUE,
          lines |-> Append(lines, LogLine(prediction, prediction_label,
                                          confidence, inference_time_ms))]

\* a logger that opens the file for writing, not for appending
LogPredictionToFileTruncating(writable, exists, lines, prediction, prediction_label, confidence, inference_time_ms) ==
    IF ~writable
    THEN [raised |-> FALSE, exists |-> exists, lines |-> lines]
    ELSE [raised |-> FALSE, exists |-> TRUE,
          lines |-> <<LogLine(prediction, prediction_label, confidence,
                              inference_time_ms)>>]

\* a logger that writes its record twice
LogPredictionToFileTwice(writable, exists, lines, prediction, prediction_label, confidence, inference_time_ms) ==
    IF ~writable
    THEN [raised |-> FALSE, exists |-> exists, lines |-> lines]
    ELSE [raised |-> FALSE, exists |-> TRUE,
          lines |-> lines \o
                    <<LogLine(prediction, prediction_label, confidence,
                              inference_time_ms),
                      LogLine(prediction, prediction_label, confidence,
                              inference_time_ms)>>]

\* the file after the call, and whether an exception left the function
LogPredictionToFile(writable, exists, lines, prediction, prediction_label, confidence, inference_time_ms) ==
    IF ~writable
    THEN \* os.makedirs or open raises inside the try: caught and reported
         [raised |-> FALSE, exists |-> exists, lines |-> lines]
    ELSE [raised |-> FALSE, exists |-> TRUE,
          lines |-> Append(lines, LogLine(prediction, prediction_label,
                                          confidence, inference_time_ms))]

EmptyAcc ==
    [predictions |-> <<>>, confidences |-> <<>>, inference_times |-> <<>>,
     distribution |-> EmptyBag]

\* pred_label = entry.get("prediction_label", str(entry["prediction"]))
PredLabel(entry) ==
    IF "prediction_label" \in entry.keys
    THEN entry.dict["prediction_label"]
    ELSE PyStr(entry.dict["prediction"])

\* the try block on a parsed dict that has "prediction": the appends made
\* before a KeyError stay
ScanDict(acc, entry, pred_label) ==
    IF ~("confidence" \in entry.keys)
    THEN [acc EXCEPT !.predictions = Append(@, pred_label)]
    ELSE IF ~("inference_time_ms" \in entry.keys)
    THEN [acc EXCEPT !.predictions = Append(@, pred_label),
                     !.confidences = Append(@, entry.dict["confidence"])]
    ELSE [acc EXCEPT
            !.predictions = Append(@, pred_label),
            !.confidences = Append(@, entry.dict["confidence"]),
            !.inference_times = Append(@, entry.dict["inference_time_ms"]),
            !.distribution = @ (+) SetToBag({pred_label})]

\* the try block on what json.loads gave
ScanEntry(acc, entry) ==
    IF entry.raised \/ ~entry.isDict \/ ~("prediction" \in entry.keys)
    THEN acc
    ELSE ScanDict(acc, entry, PredLabel(entry))

\* the body of the for loop
ScanLine(acc, line) == ScanEntry(acc, JsonLoads(Strip(line)))

RECURSIVE ScanLines(_, _)
ScanLines(acc, lines) ==
    IF lines = <<>> THEN acc
    ELSE ScanLines(ScanLine(acc, lines[1]), Tail(lines))

Numeric(v) == v.t \in {"int", "float"}

Hundredths(v) == IF v.t = "int" THEN 100 * v.n ELSE v.n

RECURSIVE SumOf(_)
SumOf(vs) == IF vs = <<>> THEN 0 ELSE Hundredths(vs[1]) + SumOf(Tail(vs))

RECURSIVE GCD(_, _)
GCD(a, b) == IF b = 0 THEN a ELSE GCD(b, a % b)

Reduced(a, b) == [num |-> a \div GCD(a, b), den |-> b \div GCD(a, b)]

NaN == [num |-> 0, den |-> 0]
Zero == [num |-> 0, den |-> 1]

\* float(np.mean(vs)) as a fraction in lowest terms; of no value, nan
Mean(vs) ==
    IF vs = <<>> THEN NaN
    ELSE Reduced(SumOf(vs), Len(vs))

MeanRaises(vs) == \E i \in 1..Len(vs) : ~Numeric(vs[i])

EmptyStats ==
    [raised |-> FALSE, keys |-> {}, total |-> 0, avg_confidence |-> Zero,
     avg_inference_time |-> Zero, distribution |-> EmptyBag]

\* what follows the loop
StatsOf(acc) ==
    IF acc.predictions = <<>> THEN EmptyStats
    ELSE IF MeanRaises(acc.confidences) \/ MeanRaises(acc.inference_times)
    THEN [EmptyStats EXCEPT !.raised = TRUE]
    ELSE [raised |-> FALSE,
          keys |-> {"total", "avg_confidence", "avg_inference_time",
                    "distribution"},
          total |-> Len(acc.predictions),
          avg_confidence |-> Mean(acc.confidences),
          avg_inference_time |-> Mean(acc.inference_times),
          distribution |-> acc.distribution]

\* the returned dict (keys: which entries it has), or an exception
ReadPredictionStats(exists, lines) ==
    IF ~exists THEN EmptyStats ELSE StatsOf(ScanLines(EmptyAcc, lines))

ZeroStatsBody ==
    [total_predictions |-> 0, average_confidence |-> Zero,
     average_inference_time_ms |-> Zero, class_distribution |-> EmptyBag]

\* stats.get(key, default)
DictGet(stats, key, default) ==
    IF key \in stats.keys THEN stats[key] ELSE default

\* the dict get_stats builds from what read_prediction_stats gave
StatsResponse(stats) ==
    IF stats.raised THEN ZeroStatsBody
    ELSE [total_predictions |-> DictGet(stats, "total", 0),
          average_confidence |-> DictGet(stats, "avg_confidence", Zero),
          average_inference_time_ms |->
              DictGet(stats, "avg_inference_time", Zero),
          class_distribution |-> DictGet(stats, "distribution", EmptyBag)]

\* the dict get_stats returns
StatsBody(exists, lines) == StatsResponse(ReadPredictionStats(exists, lines))

----------------------------------------------------------------------------
(* src/inference.py: the model handle and the binary predictor *)

None == [present |-> FALSE, model |-> "None"]

\* self.model is not None
is_loaded(self) == self.model # "None"

\* a load_model that returns quietly when the file is not there
LoadModelLenient(self, file) ==
    IF file = "missing"
    THEN [raised |-> FALSE, exc |-> "", self |-> self]
    ELSE IF file = "corrupt"
    THEN [raised |-> TRUE, exc |-> "LoadError",
          self |-> [self EXCEPT !.model = "fresh"]]
    ELSE [raised |-> FALSE, exc |-> "",
          self |-> [self EXCEPT !.model = "loaded"]]

\* ModelInference.load_model on self, given the file at model_path
LoadModel(self, file) ==
    IF file = "missing"
    THEN [raised |-> TRUE, exc |-> "FileNotFoundError", self |-> self]
    ELSE IF file = "corrupt"
    THEN \* the network is constructed, load_state_dict raises
         [raised |-> TRUE, exc |-> "LoadError",
          self |-> [self EXCEPT !.model = "fresh"]]
    ELSE [raised |-> FALSE, exc |-> "",
          self |-> [self EXCEPT !.model = "loaded"]]

\* ModelInference(model_path): the instance, unless __init__ raised
NewModelInference(file) ==
    LoadModel([present |-> TRUE, model |-> "None"], file)

class_names == <<"Cat", "Dog">>

\* a rule that sends the threshold itself to class 1
DecisionRuleInclusive(probability, half, complement) ==
    [prediction |-> IF probability >= half THEN 1 ELSE 0,
     prediction_label |-> class_names[(IF probability >= half THEN 1 ELSE 0) + 1],
     probabilities |-> [Cat |-> complement, Dog |-> probability],
     confidence |-> IF probability >= half THEN probability ELSE complement]

\* a rule that reports the sigmoid output as the confidence of either class
DecisionRuleRawConfidence(probability, half, complement) ==
    [prediction |-> IF probability > half THEN 1 ELSE 0,
     prediction_label |-> class_names[(IF probability > half THEN 1 ELSE 0) + 1],
     probabilities |-> [Cat |-> complement, Dog |-> probability],
     confidence |-> probability]

\* the result dict built from the sigmoid probability; half is 0.5 and
\* complement is 1 - probability in the arithmetic of the caller
DecisionRule(probability, half, complement) ==
    LET predicted_class == IF probability > half THEN 1 ELSE 0
        confidence == IF predicted_class = 1 THEN probability ELSE complement
    IN  [prediction |-> predicted_class,
         prediction_label |-> class_names[predicted_class + 1],
         probabilities |-> [Cat |-> complement, Dog |-> probability],
         confidence |-> confidence]

\* the result dict in hundredths, as the service passes it on
PredictorResult(probability) ==
    DecisionRule(probability, 50, 100 - probability)

NoResult ==
    [prediction |-> -1, prediction_label |-> "",
     probabilities |-> [Cat |-> 0, Dog |-> 0], confidence |-> 0]

----------------------------------------------------------------------------
(* Binary floating point, scaled down.  A number n stands for n / 2^FracBits; *)
(* a network output (float32) has SigBits significant bits, a Python float    *)
(* (double) has Precision significant bits, and every operation rounds its    *)
(* exact result to the nearest representable number, ties to even.            *)

FOne == 2 ^ FracBits
FHalf == 2 ^ (FracBits - 1)

RECURSIVE BitLen(_)
BitLen(n) == IF n = 0 THEN 0 ELSE 1 + BitLen(n \div 2)

\* q units of size unit and a remainder r, to the nearest unit, ties to even
RoundUnits(q, r, unit) ==
    IF 2 * r > unit \/ (2 * r = unit /\ q % 2 = 1)
    THEN (q + 1) * unit
    ELSE q * unit

RoundShift(n, sh) ==
    IF sh <= 0 THEN n ELSE RoundUnits(n \div (2 ^ sh), n % (2 ^ sh), 2 ^ sh)

\* n rounded to bits significant bits
RoundTo(bits, n) == RoundShift(n, BitLen(n) - bits)

\* n, of either sign, rounded to a Python float
FRound(n) ==
    IF n < 0 THEN 0 - RoundTo(Precision, 0 - n) ELSE RoundTo(Precision, n)

\* a - b and a + b on Python floats
FSub(a, b) == FRound(a - b)
FAdd(a, b) == FRound(a + b)

\* the fraction num / den (num >= 0, den > 0) rounded to a Python float
RoundRatio(num, den) ==
    IF BitLen(num \div den) <= Precision
    THEN RoundUnits(num \div den, num % den, den) \div den
    ELSE RoundUnits(num \div (den * 2 ^ (BitLen(num \div den) - Precision)),
                    num % (den * 2 ^ (BitLen(num \div den) - Precision)),
                    den * 2 ^ (BitLen(num \div den) - Precision)) \div den

\* a / b and a * b on Python floats, a >= 0, b > 0 resp. b >= 0
FDiv(a, b) == RoundRatio(a * FOne, b)
FMul(a, b) == RoundRatio(a * b, FOne)

\* the values torch.sigmoid(output).item() can have
SigmoidOutputs == {n \in 0..FOne : RoundTo(SigBits, n) = n}

\* the result dict of the binary predictor on Python floats
BinaryResult(probability) ==
    DecisionRule(probability, FHalf, FSub(FOne, probability))

RECURSIVE SumSeq(_)
SumSeq(s) == IF s = <<>> THEN 0 ELSE s[1] + SumSeq(Tail(s))

\* a softmax that divides by the largest exponential, not by their sum
SoftmaxByMax(weights) ==
    [i \in 1..Len(weights) |->
        RoundTo(SigBits, (weights[i] * FOne) \div
                         weights[CHOOSE k \in 1..Len(weights) :
                                     \A j \in 1..Len(weights) :
                                         weights[j] <= weights[k]])]

\* torch.nn.functional.softmax(output, dim=1) in float32, the exponentials of
\* the logits being in proportion to weights
Softmax(weights) ==
    [i \in 1..Len(weights) |->
        RoundTo(SigBits, (weights[i] * FOne) \div SumSeq(weights))]

\* torch.max(probabilities, 1): the index of the largest entry, from 1
ArgMax(ps) ==
    CHOOSE i \in 1..Len(ps) :
        /\ \A j \in 1..Len(ps) : ps[j] <= ps[i]
        /\ \A j \in 1..(i - 1) : ps[j] < ps[i]

\* the result dict of the multi-class predictor
MultiResult(probabilities) ==
    [prediction |-> ArgMax(probabilities) - 1,
     probabilities |-> probabilities,
     confidence |-> probabilities[ArgMax(probabilities)]]

NoMulti == [prediction |-> -1, probabilities |-> <<>>, confidence |-> 0]

----------------------------------------------------------------------------
(* ModelInference.predict, called on an instance *)

\* what a call returned or raised, and what it invoked on the way
NoRet ==
    [op |-> "", raised |-> FALSE, exc |-> "", instance |-> None,
     preprocess |-> FALSE, forward |-> FALSE, sigmoid |-> 0,
     result |-> NoResult, multi |-> NoMulti,
     image_input |-> "", confidence_threshold |-> 0, predict_calls |-> 0,
     predicted |-> [result |-> NoResult, multi |-> NoMulti],
     flagged |-> FALSE, high_confidence |-> FALSE, threshold |-> 0]

Raise(op, exc, preprocess) ==
    [NoRet EXCEPT !.op = op, !.raised = TRUE, !.exc = exc,
                  !.preprocess = preprocess]

\* what may be passed as image_input to the binary predictor
BinaryInputs == {"path", "ndarray", "pil", "other"}

\* a predict that goes on to the network without looking at self.model
PredictBinaryUnchecked(self, image_input, probability) ==
    IF image_input = "other"
    THEN Raise("predict", "ValueError", TRUE)
    ELSE IF self.model = "None"
    THEN Raise("predict", "TypeError", TRUE)
    ELSE [NoRet EXCEPT !.op = "predict", !.preprocess = TRUE,
                       !.forward = TRUE, !.sigmoid = probability,
                       !.result = BinaryResult(probability)]

\* "Assignment 2/src/inference.py" predict
PredictBinary(self, image_input, probability) ==
    IF self.model = "None"
    THEN Raise("predict", "RuntimeError", FALSE)
    ELSE IF image_input = "other"
    THEN \* preprocess_image: unsupported input type
         Raise("predict", "ValueError", TRUE)
    ELSE [NoRet EXCEPT !.op = "predict", !.preprocess = TRUE,
                       !.forward = TRUE, !.sigmoid = probability,
                       !.result = BinaryResult(probability)]

\* what may be passed as image_input to the multi-class predictor: a path, a
\* 128x128x3 array, a 64x64x3 array, an array that has not three dimensions
\* with the last one 3, another object
MultiInputs == {"path", "hwc3", "hwc3_64", "bad_shape", "other"}

\* "src/inference.py" predict
PredictMulti(self, image_input, weights) ==
    IF self.model = "None"
    THEN Raise("predict", "RuntimeError", FALSE)
    ELSE IF image_input = "bad_shape"
    THEN Raise("predict", "ValueError", FALSE)
    ELSE IF image_input = "other"
    THEN Raise("predict", "TypeError", FALSE)
    ELSE IF image_input = "hwc3_64"
    THEN \* passes the ndim == 3 and shape[2] == 3 test; the network runs
         \* its convolutions and x.view(-1, 64 * 32 * 32) raises
         [Raise("predict", "RuntimeError", FALSE) EXCEPT !.forward = TRUE]
    ELSE [NoRet EXCEPT !.op = "predict", !.preprocess = image_input = "path",
                       !.forward = TRUE,
                       !.multi = MultiResult(Softmax(weights))]

----------------------------------------------------------------------------
(* api/main.py: the service *)

\* sigmoid outputs of the network, in hundredths
Probabilities == {5, 50, 80}
\* measured inference times, in hundredths of a millisecond
Times == {300, 1205}

PredictEndpoints == {"/predict", "/predict-base64"}

\* what a client can send: a body without the required field, text that is
\* no base64, bytes that are no image, an image cut short, an image
Payloads(endpoint) ==
    IF endpoint = "/predict"
    THEN {"no_field", "garbage", "truncated", "image"}
    ELSE {"no_field", "bad_base64", "garbage", "truncated", "image"}

AlwaysBinds(payload) == TRUE

\* the required parameter (file: UploadFile = File(...), image: str =
\* Field(...)) binds
BodyBinds(payload) == payload # "no_field"

NeverUnavailable(handle) == FALSE

\* model_inference is None or not model_inference.is_loaded()
ModelUnavailable(handle) == ~handle.present \/ ~is_loaded(handle)

\* base64.b64decode and Image.open succeed
Decodes(payload) == payload \in {"truncated", "image"}

NoCalls ==
    [predictor |-> FALSE, preprocess |-> FALSE, forward |-> FALSE,
     logger |-> FALSE, result |-> NoResult, inference_time_ms |-> 0]

NoBody == [none |-> TRUE]

Response(endpoint, status, detail, body) ==
    [endpoint |-> endpoint, status |-> status, detail |-> detail,
     body |-> body]

NotLoadedDetail == "Model not loaded. Please try again later."

\* the body ServerErrorMiddleware sends when an exception leaves the
\* application
InternalServerError == "Internal Server Error"

\* request.method of the requests modelled here
Method(endpoint) == IF endpoint \in PredictEndpoints THEN "POST" ELSE "GET"

NoMetrics ==
    [requests |-> EmptyBag, latency |-> EmptyBag, predictions |-> EmptyBag]

\* the middleware log_requests around a handler that has incremented
\* PREDICTION_COUNT under the labels in predicted: when call_next raises, the
\* statements after it do not run
LogRequests(response, predicted) ==
    IF response.detail = InternalServerError
    THEN [NoMetrics EXCEPT !.predictions = predicted]
    ELSE [requests |-> SetToBag({<<response.endpoint,
                                   Method(response.endpoint),
                                   response.status>>}),
          latency |-> SetToBag({response.endpoint}),
          predictions |-> predicted]

\* no run of a script
\* a script or function that is not running
Off == [pc |-> "off"]

\* a line as this service writes it
WrittenLine == LogLine(1, "Dog", 80, 1205)

\* a line of the digit variant of the service: no prediction_label
DigitLine ==
    JsonDumps(<< <<"timestamp", Timestamp>>, <<"prediction", IntV(5)>>,
                 <<"confidence", FloatV(70)>>,
                 <<"inference_time_ms", FloatV(300)>> >>) \o <<NL>>

\* a line cut short: no JSON
TruncatedLine == SubSeq(WrittenLine, 1, 6)

\* JSON that is no object
ArrayLine == <<Punct("["), Tok("num", <<"1">>), Punct("]"), NL>>

BlankLine == <<NL>>

NoPredictionLine ==
    JsonDumps(<< <<"prediction_label", StrV(<<"Cat">>)>>,
                 <<"confidence", FloatV(95)>>,
                 <<"inference_time_ms", FloatV(300)>> >>) \o <<NL>>

NoConfidenceLine ==
    JsonDumps(<< <<"prediction", IntV(0)>>,
                 <<"prediction_label", StrV(<<"Cat">>)>>,
                 <<"inference_time_ms", FloatV(300)>> >>) \o <<NL>>

NoTimeLine ==
    JsonDumps(<< <<"prediction", IntV(0)>>,
                 <<"prediction_label", StrV(<<"Cat">>)>>,
                 <<"confidence", FloatV(95)>> >>) \o <<NL>>

\* an object whose confidence is no number
TextConfidenceLine ==
    JsonDumps(<< <<"prediction", IntV(1)>>,
                 <<"prediction_label", StrV(<<"Dog">>)>>,
                 <<"confidence", StrV(<<"high">>)>>,
                 <<"inference_time_ms", FloatV(300)>> >>) \o <<NL>>

\* the lines logs/predictions.jsonl may hold when the process starts
RawLines ==
    {WrittenLine, DigitLine, TruncatedLine, ArrayLine, BlankLine,
     NoPredictionLine, NoConfidenceLine, NoTimeLine, TextConfidenceLine}

SeqsUpTo(S, n) == UNION {[1..k -> S] : k \in 0..n}

Init ==
    /\ phase = "starting"
    /\ artifact \in {"missing", "corrupt", "ok"}
    /\ model_inference = None
    /\ logWritable \in BOOLEAN
    /\ logExists \in BOOLEAN
    /\ log \in IF logExists THEN SeqsUpTo(RawLines, MaxInitLines) ELSE {<<>>}
    /\ req = [endpoint |-> "", payload |-> ""]
    /\ resp = Response("", 0, "", NoBody)
    /\ calls = NoCalls
    /\ lastStats = [count |-> 0, body |-> ZeroStatsBody]
    /\ metrics = NoMetrics
    /\ train = Off
    /\ extract = Off
    /\ norm = Off
    /\ workers = <<>>
    /\ variant = "binary"
    /\ ret = NoRet
    /\ history = 0

\* a startup hook without the try/except
LoadModelHookUnguarded ==
    /\ phase = "starting"
    /\ LET r == NewModelInference(artifact)
       IN  /\ model_inference' = IF r.raised THEN model_inference ELSE r.self
           /\ phase' = IF r.raised THEN "crashed" ELSE "serving"
    /\ UNCHANGED <<artifact, logExists, logWritable, log, req, resp, calls,
                   lastStats>>
    /\ UNCHANGED <<metrics, workers, objectVars, scriptVars>>

\* @app.on_event("startup") load_model
LoadModelHook ==
    /\ phase = "starting"
    /\ LET r == NewModelInference(artifact)
       IN  model_inference' = IF r.raised THEN model_inference ELSE r.self
    /\ phase' = "serving"
    /\ UNCHANGED <<artifact, logExists, logWritable, log, req, resp, calls,
                   lastStats>>
    /\ UNCHANGED <<metrics, workers, objectVars, scriptVars>>

\* a health check that reports healthy whatever the handle
HealthBodyAlwaysHealthy(handle) ==
    [status |-> "healthy",
     model_loaded |-> handle.present /\ is_loaded(handle), version |-> "2.0.0"]

HealthBody(handle) ==
    LET model_loaded == handle.present /\ is_loaded(handle)
    IN  [status |-> IF model_loaded THEN "healthy" ELSE "degraded",
         model_loaded |-> model_loaded, version |-> "2.0.0"]

\* GET /health
HealthCheck ==
    /\ phase = "serving"
    /\ req' = [endpoint |-> "/health", payload |-> ""]
    /\ resp' = Response("/health", 200, "", HealthBody(model_inference))
    /\ calls' = NoCalls
    /\ UNCHANGED <<phase, artifact, model_inference, logExists, logWritable,
                   log, lastStats>>
    /\ metrics' = LogRequests(resp', EmptyBag)
    /\ UNCHANGED <<workers, objectVars, scriptVars>>

Reject(endpoint, status, detail, c) ==
    /\ resp' = Response(endpoint, status, detail, NoBody)
    /\ calls' = c
    /\ metrics' = LogRequests(resp', EmptyBag)
    /\ UNCHANGED <<logExists, log, lastStats>>

\* a handler that reports the Dog probability as the confidence
FinishDogConfidence(endpoint, result, inference_time_ms, w) ==
    /\ logExists' = w.exists
    /\ log' = w.lines
    /\ lastStats' = IF w.lines = log THEN lastStats
                    ELSE [lastStats EXCEPT !.count = 0]
    /\ resp' =
         IF w.raised
         THEN Response(endpoint, 500, "Prediction failed", NoBody)
         ELSE Response(endpoint, 200, "",
                [prediction |-> result.prediction,
                 prediction_label |-> result.prediction_label,
                 probabilities |-> result.probabilities,
                 confidence |-> result.probabilities.Dog,
                 inference_time_ms |-> inference_time_ms])
    /\ metrics' = LogRequests(resp', SetToBag({result.prediction_label}))

\* the handler once the logger has returned w (or raised)
Finish(endpoint, result, inference_time_ms, w) ==
    /\ logExists' = w.exists
    /\ log' = w.lines
    /\ lastStats' = IF w.lines = log THEN lastStats
                    ELSE [lastStats EXCEPT !.count = 0]
    /\ resp' =
         IF w.raised
         THEN Response(endpoint, 500, "Prediction failed", NoBody)
         ELSE Response(endpoint, 200, "",
                [prediction |-> result.prediction,
                 prediction_label |-> result.prediction_label,
                 probabilities |-> result.probabilities,
                 confidence |-> result.confidence,
                 inference_time_ms |-> inference_time_ms])
    /\ metrics' = LogRequests(resp', SetToBag({result.prediction_label}))

\* the handler from the predictor's result on
Answer(endpoint, result, inference_time_ms) ==
    /\ calls' = [predictor |-> TRUE, preprocess |-> TRUE, forward |-> TRUE,
                 logger |-> TRUE, result |-> result,
                 inference_time_ms |-> inference_time_ms]
    /\ Finish(endpoint, result, inference_time_ms,
              LogPredictionToFile(logWritable, logExists, log,
                  result.prediction, result.prediction_label,
                  result.confidence, inference_time_ms))

\* the handler body after the model check, the model being present and loaded
Infer(endpoint, payload) ==
    IF ~Decodes(payload)
    THEN \* base64.b64decode or Image.open raises: except -> 500
         Reject(endpoint, 500, "Prediction failed", NoCalls)
    ELSE IF ~model_inference.present
    THEN \* None has no predict
         Reject(endpoint, 500, "Prediction failed", NoCalls)
    ELSE IF ~is_loaded(model_inference)
    THEN \* ModelInference.predict raises RuntimeError
         Reject(endpoint, 500, "Prediction failed",
                [NoCalls EXCEPT !.predictor = TRUE])
    ELSE IF payload = "truncated"
    THEN \* preprocess_image: convert('RGB') raises on the cut image
         Reject(endpoint, 500, "Prediction failed",
                [NoCalls EXCEPT !.predictor = TRUE, !.preprocess = TRUE])
    ELSE
      \E probability \in Probabilities, inference_time_ms \in Times :
        /\ Len(log) < MaxLogLines
        /\ Answer(endpoint, PredictorResult(probability), inference_time_ms)

PredictionRequest(endpoint) ==
    /\ phase = "serving"
    /\ \E payload \in Payloads(endpoint) :
         /\ req' = [endpoint |-> endpoint, payload |-> payload]
         /\ IF ~BodyBinds(payload)
            THEN \* request validation answers before the handler runs
                 Reject(endpoint, 422, "Field required", NoCalls)
            ELSE IF ModelUnavailable(model_inference)
            THEN Reject(endpoint, 503, NotLoadedDetail, NoCalls)
            ELSE Infer(endpoint, payload)
    /\ UNCHANGED <<phase, artifact, model_inference, logWritable>>
    /\ UNCHANGED <<workers, objectVars, scriptVars>>

\* POST /predict
Predict == PredictionRequest("/predict")

\* POST /predict-base64
PredictBase64 == PredictionRequest("/predict-base64")

\* GET /metrics
Metrics ==
    /\ phase = "serving"
    /\ req' = [endpoint |-> "/metrics", payload |-> ""]
    /\ resp' = Response("/metrics", 200, "", NoBody)
    /\ calls' = NoCalls
    /\ UNCHANGED <<phase, artifact, model_inference, logExists, logWritable,
                   log, lastStats>>
    /\ metrics' = LogRequests(resp', EmptyBag)
    /\ UNCHANGED <<workers, objectVars, scriptVars>>

\* the response to GET /stats, given the dict get_stats returned: JSONResponse
\* renders with allow_nan=False, so a nan average raises ValueError after the
\* handler's try block has been left
StatsReply(body) ==
    IF body.average_confidence = NaN \/ body.average_inference_time_ms = NaN
    THEN Response("/stats", 500, InternalServerError, NoBody)
    ELSE Response("/stats", 200, "", body)

\* a stats endpoint that empties the log it has read
GetStatsConsuming ==
    /\ phase = "serving"
    /\ req' = [endpoint |-> "/stats", payload |-> ""]
    /\ resp' = StatsReply(StatsBody(logExists, log))
    /\ calls' = NoCalls
    /\ lastStats' = [count |-> IF lastStats.count = 0 THEN 1 ELSE 2,
                      body |-> resp'.body]
    /\ log' = <<>>
    /\ UNCHANGED <<phase, artifact, model_inference, logExists, logWritable>>
    /\ metrics' = LogRequests(resp', EmptyBag)
    /\ UNCHANGED <<workers, objectVars, scriptVars>>

\* GET /stats
GetStats ==
    /\ phase = "serving"
    /\ req' = [endpoint |-> "/stats", payload |-> ""]
    /\ resp' = StatsReply(StatsBody(logExists, log))
    /\ calls' = NoCalls
    /\ lastStats' = [count |-> IF lastStats.count = 0 THEN 1 ELSE 2,
                      body |-> resp'.body]
    /\ UNCHANGED <<phase, artifact, model_inference, logExists, logWritable,
                   log>>
    /\ metrics' = LogRequests(resp', EmptyBag)
    /\ UNCHANGED <<workers, objectVars, scriptVars>>

\* a model-info endpoint that loads the model when asked
ModelInfoReloading ==
    /\ phase = "serving"
    /\ req' = [endpoint |-> "/model-info", payload |-> ""]
    /\ model_inference' = NewModelInference(artifact).self
    /\ resp' = Response("/model-info", 200, "",
                        [model_loaded |-> is_loaded(model_inference')])
    /\ calls' = NoCalls
    /\ UNCHANGED <<phase, artifact, logExists, logWritable, log, lastStats>>
    /\ metrics' = LogRequests(resp', EmptyBag)
    /\ UNCHANGED <<workers, objectVars, scriptVars>>

\* a model-info endpoint that reports the model loaded when its file is there
ModelInfoByFile ==
    /\ phase = "serving"
    /\ req' = [endpoint |-> "/model-info", payload |-> ""]
    /\ resp' = Response("/model-info", 200, "",
                 [model_loaded |-> artifact # "missing"])
    /\ calls' = NoCalls
    /\ UNCHANGED <<phase, artifact, model_inference, logExists, logWritable,
                   log, lastStats>>
    /\ metrics' = LogRequests(resp', EmptyBag)
    /\ UNCHANGED <<workers, objectVars, scriptVars>>

\* GET /model-info
ModelInfo ==
    /\ phase = "serving"
    /\ req' = [endpoint |-> "/model-info", payload |-> ""]
    /\ resp' = Response("/model-info", 200, "",
                 [model_loaded |->
                      model_inference.present /\ is_loaded(model_inference)])
    /\ calls' = NoCalls
    /\ UNCHANGED <<phase, artifact, model_inference, logExists, logWritable,
                   log, lastStats>>
    /\ metrics' = LogRequests(resp', EmptyBag)
    /\ UNCHANGED <<workers, objectVars, scriptVars>>

Next ==
    \/ LoadModelHook
    \/ HealthCheck
    \/ Predict
    \/ PredictBase64
    \/ Metrics
    \/ GetStats
    \/ ModelInfo

Spec == Init /\ [][Next]_vars

----------------------------------------------------------------------------
(* A ModelInference instance used on its own, as the tests of inference.py  *)
(* use it: constructed, called, its file replaced, its model attribute set. *)

Variants == {"binary", "multiclass"}

Files == {"missing", "corrupt", "ok"}

ObjectInit ==
    /\ phase = "library"
    /\ artifact \in Files
    /\ model_inference = None
    /\ logExists = FALSE
    /\ logWritable = FALSE
    /\ log = <<>>
    /\ req = [endpoint |-> "", payload |-> ""]
    /\ resp = Response("", 0, "", NoBody)
    /\ calls = NoCalls
    /\ lastStats = [count |-> 0, body |-> ZeroStatsBody]
    /\ metrics = NoMetrics
    /\ train = Off
    /\ extract = Off
    /\ norm = Off
    /\ workers = <<>>
    /\ variant \in Variants
    /\ ret = NoRet
    /\ history = 0

\* ModelInference(model_path), given what __init__'s load_model did
Constructed(r) ==
    /\ ret' = [NoRet EXCEPT !.op = "__init__", !.raised = r.raised,
                            !.exc = r.exc,
                            !.instance = IF r.raised THEN None ELSE r.self]
    /\ model_inference' = IF r.raised THEN model_inference ELSE r.self
    /\ history' = IF r.raised THEN history ELSE 0

\* inference = ModelInference(model_path)
Construct ==
    /\ Constructed(NewModelInference(artifact))
    /\ UNCHANGED <<phase, artifact, logExists, logWritable, log, req, resp,
                   calls, lastStats, metrics, workers, variant, scriptVars>>

Reloaded(r) ==
    /\ ret' = [NoRet EXCEPT !.op = "load_model", !.raised = r.raised,
                            !.exc = r.exc]
    /\ model_inference' = r.self

\* inference.load_model()
CallLoadModel ==
    /\ model_inference.present
    /\ Reloaded(LoadModel(model_inference, artifact))
    /\ UNCHANGED <<phase, artifact, logExists, logWritable, log, req, resp,
                   calls, lastStats, metrics, workers, variant, history,
                   scriptVars>>

\* inference.model = None
SetModelNone ==
    /\ model_inference.present
    /\ model_inference.model # "None"
    /\ model_inference' = [model_inference EXCEPT !.model = "None"]
    /\ ret' = [NoRet EXCEPT !.op = "model = None"]
    /\ UNCHANGED <<phase, artifact, logExists, logWritable, log, req, resp,
                   calls, lastStats, metrics, workers, variant, history,
                   scriptVars>>

\* the file at model_path is written, damaged or removed
WriteArtifact ==
    /\ \E file \in Files \ {artifact} : artifact' = file
    /\ ret' = [NoRet EXCEPT !.op = "file"]
    /\ UNCHANGED <<phase, model_inference, logExists, logWritable, log, req,
                   resp, calls, lastStats, metrics, workers, variant, history,
                   scriptVars>>

\* predict has returned or raised r
Returned(r) ==
    /\ r.raised \/ history < MaxPredictions
    /\ ret' = r
    /\ history' = IF r.raised THEN history ELSE history + 1

\* inference.predict(image_input) on the binary variant
CallPredictBinary ==
    /\ variant = "binary"
    /\ model_inference.present
    /\ \E image_input \in BinaryInputs, probability \in SigmoidOutputs :
         Returned([PredictBinary(model_inference, image_input, probability)
                       EXCEPT !.image_input = image_input])
    /\ UNCHANGED <<serviceVars, workers, variant, scriptVars>>

\* inference.predict(image_input) on the multi-class variant
CallPredictMulti ==
    /\ variant = "multiclass"
    /\ model_inference.present
    /\ \E image_input \in MultiInputs,
          weights \in [1..NumClasses -> 1..MaxWeight] :
         Returned([PredictMulti(model_inference, image_input, weights)
                       EXCEPT !.image_input = image_input])
    /\ UNCHANGED <<serviceVars, workers, variant, scriptVars>>

ObjectNext ==
    \/ Construct
    \/ CallLoadModel
    \/ SetModelNone
    \/ WriteArtifact
    \/ CallPredictBinary
    \/ CallPredictMulti

SpecInference == ObjectInit /\ [][ObjectNext]_vars

----------------------------------------------------------------------------
(* get_prediction_with_confidence, called on an instance that has a model   *)
(* or whose model has been set to None                                      *)

\* the confidence thresholds a caller passes
Thresholds == {FHalf, (3 * FOne) \div 4, FOne}

\* result['confidence'] of what predict returned
Confidence(r) ==
    IF variant = "binary" THEN r.result.confidence ELSE r.multi.confidence

\* a flag that is set only above the threshold
GetPredictionWithConfidenceStrict(r, confidence_threshold) ==
    IF r.raised
    THEN [r EXCEPT !.op = "get_prediction_with_confidence",
                   !.predict_calls = 1,
                   !.confidence_threshold = confidence_threshold]
    ELSE [r EXCEPT !.op = "get_prediction_with_confidence",
                   !.predict_calls = 1,
                   !.confidence_threshold = confidence_threshold,
                   !.predicted = [result |-> r.result, multi |-> r.multi],
                   !.flagged = TRUE,
                   !.high_confidence = Confidence(r) > confidence_threshold,
                   !.threshold = confidence_threshold]

\* get_prediction_with_confidence, r being what its call of
\* model_inference.predict returns or raises
GetPredictionWithConfidence(r, confidence_threshold) ==
    IF r.raised
    THEN [r EXCEPT !.op = "get_prediction_with_confidence",
                   !.predict_calls = 1,
                   !.confidence_threshold = confidence_threshold]
    ELSE [r EXCEPT !.op = "get_prediction_with_confidence",
                   !.predict_calls = 1,
                   !.confidence_threshold = confidence_threshold,
                   !.predicted = [result |-> r.result, multi |-> r.multi],
                   !.flagged = TRUE,
                   !.high_confidence = Confidence(r) >= confidence_threshold,
                   !.threshold = confidence_threshold]

\* get_prediction_with_confidence(inference, image_input, threshold) on the
\* binary variant
CallGetPredictionBinary ==
    /\ variant = "binary"
    /\ model_inference.present
    /\ \E image_input \in BinaryInputs, probability \in SigmoidOutputs,
          confidence_threshold \in Thresholds :
         ret' = GetPredictionWithConfidence(
                    [PredictBinary(model_inference, image_input, probability)
                         EXCEPT !.image_input = image_input],
                    confidence_threshold)
    /\ UNCHANGED <<serviceVars, workers, variant, history, scriptVars>>

\* get_prediction_with_confidence(inference, image_path, threshold) on the
\* multi-class variant
CallGetPredictionMulti ==
    /\ variant = "multiclass"
    /\ model_inference.present
    /\ \E image_input \in MultiInputs,
          weights \in [1..NumClasses -> 1..MaxWeight],
          confidence_threshold \in Thresholds :
         ret' = GetPredictionWithConfidence(
                    [PredictMulti(model_inference, image_input, weights)
                         EXCEPT !.image_input = image_input],
                    confidence_threshold)
    /\ UNCHANGED <<serviceVars, workers, variant, history, scriptVars>>

\* an instance of either variant, as load_model or a caller left it
ConfidenceInit ==
    /\ phase = "library"
    /\ artifact = "ok"
    /\ model_inference \in {[present |-> TRUE, model |-> m] :
                                m \in {"loaded", "fresh", "None"}}
    /\ logExists = FALSE
    /\ logWritable = FALSE
    /\ log = <<>>
    /\ req = [endpoint |-> "", payload |-> ""]
    /\ resp = Response("", 0, "", NoBody)
    /\ calls = NoCalls
    /\ lastStats = [count |-> 0, body |-> ZeroStatsBody]
    /\ metrics = NoMetrics
    /\ train = Off
    /\ extract = Off
    /\ norm = Off
    /\ workers = <<>>
    /\ variant \in Variants
    /\ ret = NoRet
    /\ history = 0

ConfidenceNext ==
    \/ CallGetPredictionBinary
    \/ CallGetPredictionMulti

SpecConfidence == ConfidenceInit /\ [][ConfidenceNext]_vars

----------------------------------------------------------------------------
(* data_preprocessing.py: normalize_pixel_values on a float array, flattened *)

\* image_array.min() and image_array.max()
ArrayMin(a) == CHOOSE x \in {a[i] : i \in 1..Len(a)} :
                   \A i \in 1..Len(a) : x <= a[i]
ArrayMax(a) == CHOOSE x \in {a[i] : i \in 1..Len(a)} :
                   \A i \in 1..Len(a) : a[i] <= x

\* a normalisation that fills a constant image with min_val
NormalizePixelValuesFlatToMin(image_array, min_val, max_val) ==
    IF FSub(ArrayMax(image_array), ArrayMin(image_array)) = 0
    THEN [i \in 1..Len(image_array) |-> min_val]
    ELSE [i \in 1..Len(image_array) |->
            FAdd(FMul(FDiv(FSub(image_array[i], ArrayMin(image_array)),
                           FSub(ArrayMax(image_array),
                                ArrayMin(image_array))),
                      FSub(max_val, min_val)),
                 min_val)]

\* normalize_pixel_values
NormalizePixelValues(image_array, min_val, max_val) ==
    IF FSub(ArrayMax(image_array), ArrayMin(image_array)) = 0
    THEN \* np.zeros_like(image_array)
         [i \in 1..Len(image_array) |-> 0]
    ELSE [i \in 1..Len(image_array) |->
            FAdd(FMul(FDiv(FSub(image_array[i], ArrayMin(image_array)),
                           FSub(ArrayMax(image_array),
                                ArrayMin(image_array))),
                      FSub(max_val, min_val)),
                 min_val)]

\* the arrays passed: one element or more, each a whole number of units
ImageArrays ==
    UNION {[1..n -> 0..MaxPixel] : n \in 1..MaxPixels}

\* the ends of the ranges asked for: -1.0, 0.0, 1/32, 3/32, 1.0
RangeEnds == {0 - FOne, 0, FOne \div 32, 3 * (FOne \div 32), FOne}

NormInit ==
    /\ phase = "library"
    /\ artifact = "ok"
    /\ model_inference = None
    /\ logExists = FALSE
    /\ logWritable = FALSE
    /\ log = <<>>
    /\ req = [endpoint |-> "", payload |-> ""]
    /\ resp = Response("", 0, "", NoBody)
    /\ calls = NoCalls
    /\ lastStats = [count |-> 0, body |-> ZeroStatsBody]
    /\ metrics = NoMetrics
    /\ train = Off
    /\ extract = Off
    /\ workers = <<>>
    /\ variant = "binary"
    /\ ret = NoRet
    /\ history = 0
    /\ norm \in {[pc |-> "ready", image_array |-> a, min_val |-> range[1],
                  max_val |-> range[2], result |-> <<>>] :
                     a \in ImageArrays,
                     range \in {e \in RangeEnds \X RangeEnds : e[1] <= e[2]}}

\* result = normalize_pixel_values(image, min_val, max_val)
CallNormalize ==
    /\ norm.pc = "ready"
    /\ norm' = [norm EXCEPT
                  !.pc = "done",
                  !.result = NormalizePixelValues(norm.image_array,
                                 norm.min_val, norm.max_val)]
    /\ UNCHANGED <<serviceVars, workers, objectVars, train, extract>>

SpecNormalize == NormInit /\ [][CallNormalize]_vars

----------------------------------------------------------------------------
(* model.py: the training loop of train_model and its final evaluation *)

\* validation accuracies, in percent
Accuracies == {0, 50, 75, 100}

TrainInit ==
    /\ phase = "library"
    /\ artifact = "ok"
    /\ model_inference = None
    /\ logExists = FALSE
    /\ logWritable = FALSE
    /\ log = <<>>
    /\ req = [endpoint |-> "", payload |-> ""]
    /\ resp = Response("", 0, "", NoBody)
    /\ calls = NoCalls
    /\ lastStats = [count |-> 0, body |-> ZeroStatsBody]
    /\ metrics = NoMetrics
    /\ workers = <<>>
    /\ variant = "binary"
    /\ ret = NoRet
    /\ history = 0
    /\ extract = Off
    /\ norm = Off
    /\ train \in {[pc |-> "loop", epochs |-> n, epoch |-> 0,
                   val_accs |-> <<>>, best_val_acc |-> 0,
                   best_model_path |-> "unbound", checkpoint |-> 0,
                   loaded |-> 0, exc |-> ""] : n \in 1..MaxEpochs}

\* one pass of the body of "for epoch in range(1, epochs + 1)"; checkpoint is
\* the epoch whose model state the file models/cats_dogs_best.pt holds
TrainEpoch ==
    /\ train.pc = "loop"
    /\ train.epoch < train.epochs
    /\ \E val_acc \in Accuracies :
         train' =
           IF val_acc > train.best_val_acc
           THEN [train EXCEPT !.epoch = @ + 1,
                              !.val_accs = Append(@, val_acc),
                              !.best_val_acc = val_acc,
                              !.best_model_path = "models/cats_dogs_best.pt",
                              !.checkpoint = train.epoch + 1]
           ELSE [train EXCEPT !.epoch = @ + 1,
                              !.val_accs = Append(@, val_acc)]
    /\ UNCHANGED <<serviceVars, workers, objectVars, extract, norm>>

\* model.load_state_dict(torch.load(best_model_path)) after the loop
FinalEvaluation ==
    /\ train.pc = "loop"
    /\ train.epoch = train.epochs
    /\ train' =
         IF train.best_model_path = "unbound"
         THEN \* the name was never assigned
              [train EXCEPT !.pc = "raised", !.exc = "UnboundLocalError"]
         ELSE [train EXCEPT !.pc = "evaluated", !.loaded = train.checkpoint]
    /\ UNCHANGED <<serviceVars, workers, objectVars, extract, norm>>

TrainNext ==
    \/ TrainEpoch
    \/ FinalEvaluation

SpecTrain == TrainInit /\ [][TrainNext]_vars

----------------------------------------------------------------------------
(* train_cats_dogs_model.py: extract_images *)

\* CIFAR-10 labels: cat, dog, and one of the eight others
Labels == {3, 5, 7}

ExtractInit ==
    /\ phase = "library"
    /\ artifact = "ok"
    /\ model_inference = None
    /\ logExists = FALSE
    /\ logWritable = FALSE
    /\ log = <<>>
    /\ req = [endpoint |-> "", payload |-> ""]
    /\ resp = Response("", 0, "", NoBody)
    /\ calls = NoCalls
    /\ lastStats = [count |-> 0, body |-> ZeroStatsBody]
    /\ metrics = NoMetrics
    /\ workers = <<>>
    /\ variant = "binary"
    /\ ret = NoRet
    /\ history = 0
    /\ train = Off
    /\ norm = Off
    /\ extract \in {[pc |-> "loop", dataset |-> d, max_per_class |-> m,
                     idx |-> 0, cat_count |-> 0, dog_count |-> 0,
                     cats |-> <<>>, dogs |-> <<>>, broke |-> FALSE,
                     returned |-> <<>>] :
                        d \in SeqsUpTo(Labels, MaxItems),
                        m \in 0..MaxPerClass}

\* the break test at the end of the loop body
Break(e) ==
    [e EXCEPT !.idx = @ + 1,
              !.broke = e.cat_count >= e.max_per_class
                        /\ e.dog_count >= e.max_per_class]

\* a loop body that writes while the count is at most max_per_class
ExtractItemInclusive(e, label) ==
    IF label = 3 /\ e.cat_count <= e.max_per_class
    THEN Break([e EXCEPT !.cats = Append(@, e.cat_count),
                         !.cat_count = @ + 1])
    ELSE IF label = 5 /\ e.dog_count <= e.max_per_class
    THEN Break([e EXCEPT !.dogs = Append(@, e.dog_count),
                         !.dog_count = @ + 1])
    ELSE Break(e)

\* the loop body on one item: cats and dogs list the numbers in the names of
\* the files saved, in the order they were saved
ExtractItem(e, label) ==
    IF label = 3 /\ e.cat_count < e.max_per_class
    THEN Break([e EXCEPT !.cats = Append(@, e.cat_count),
                         !.cat_count = @ + 1])
    ELSE IF label = 5 /\ e.dog_count < e.max_per_class
    THEN Break([e EXCEPT !.dogs = Append(@, e.dog_count),
                         !.dog_count = @ + 1])
    ELSE Break(e)

\* the for loop takes the next item
ExtractStep ==
    /\ extract.pc = "loop"
    /\ ~extract.broke
    /\ extract.idx < Len(extract.dataset)
    /\ extract' = ExtractItem(extract, extract.dataset[extract.idx + 1])
    /\ UNCHANGED <<serviceVars, workers, objectVars, train, norm>>

\* return cat_count, dog_count
ExtractReturn ==
    /\ extract.pc = "loop"
    /\ extract.broke \/ extract.idx = Len(extract.dataset)
    /\ extract' = [extract EXCEPT
                     !.pc = "returned",
                     !.returned = <<extract.cat_count, extract.dog_count>>]
    /\ UNCHANGED <<serviceVars, workers, objectVars, train, norm>>

ExtractNext ==
    \/ ExtractStep
    \/ ExtractReturn

SpecExtract == ExtractInit /\ [][ExtractNext]_vars

----------------------------------------------------------------------------
(* The prediction handler step by step, with several requests in flight.    *)
(* The model is loaded; between two steps of one request any step of        *)
(* another may run, a write call on the log file included.                  *)

\* the requests the server has in flight at most
Slots == {1, 2}

\* what a client sends here: bytes that are no image, an image
StepPayloads == {"garbage", "image"}

\* a handler that writes the log record before it calls the predictor
HandlerStepsLogFirst == <<"read", "log", "predict", "respond">>

\* the try block of predict and predict_base64, in the order of its statements
HandlerSteps == <<"read", "predict", "log", "respond">>

\* a logger that writes the record and the newline in two calls
WritesNewlineApart(line) == <<SubSeq(line, 1, Len(line) - 1), <<NL>>>>

\* the write calls of the logger: f.write(json.dumps(log_entry) + "\n")
Writes(line) == <<line>>

\* the lines of the file once text has been appended to it
AppendText(lines, text) ==
    IF lines # <<>> /\ lines[Len(lines)][Len(lines[Len(lines)])] # NL
    THEN [lines EXCEPT ![Len(lines)] = @ \o text]
    ELSE Append(lines, text)

\* a slot that handles no request
Idle ==
    [pc |-> "idle", at |-> 0, payload |-> "", computed |-> FALSE,
     result |-> NoResult, inference_time_ms |-> 0, logging |-> FALSE,
     pending |-> <<>>, appended |-> 0, logged |-> FALSE, built |-> FALSE,
     status |-> 0]

\* a slot whose request has been answered: what the handler did stays on
\* record, the values it worked on do not
Answered(w, status) ==
    [Idle EXCEPT !.computed = w.computed, !.appended = w.appended,
                 !.logged = w.logged, !.built = status = 200,
                 !.status = status]

\* the statement the request in slot s executes next
NextStep(s) == HandlerSteps[workers[s].at + 1]

Busy == {s \in Slots : workers[s].pc = "busy"}

StepsInit ==
    /\ phase = "serving"
    /\ artifact = "ok"
    /\ model_inference = NewModelInference("ok").self
    /\ logWritable \in BOOLEAN
    /\ logExists \in BOOLEAN
    /\ log \in IF logExists THEN SeqsUpTo({WrittenLine}, MaxInitLines)
               ELSE {<<>>}
    /\ req = [endpoint |-> "", payload |-> ""]
    /\ resp = Response("", 0, "", NoBody)
    /\ calls = NoCalls
    /\ lastStats = [count |-> 0, body |-> ZeroStatsBody]
    /\ metrics = NoMetrics
    /\ train = Off
    /\ extract = Off
    /\ norm = Off
    /\ workers = [s \in Slots |-> Idle]
    /\ variant = "binary"
    /\ ret = NoRet
    /\ history = 0

\* a prediction request passes request validation and the model check
Receive ==
    /\ Len(log) + Cardinality(Busy) < MaxInitLines + Cardinality(Slots)
    /\ \E s \in Slots, payload \in StepPayloads :
         /\ workers[s].pc = "idle"
         /\ workers' = [workers EXCEPT ![s] =
                [Idle EXCEPT !.pc = "busy", !.payload = payload]]
    /\ UNCHANGED <<serviceVars, objectVars, scriptVars>>

\* await file.read(), base64.b64decode, Image.open
StepRead ==
    /\ \E s \in Busy :
         /\ NextStep(s) = "read"
         /\ workers' = [workers EXCEPT ![s] =
                IF Decodes(@.payload)
                THEN [@ EXCEPT !.at = @ + 1]
                ELSE \* except Exception: HTTPException(500)
                     Answered(@, 500)]
    /\ UNCHANGED <<serviceVars, objectVars, scriptVars>>

\* result = model_inference.predict(image) and the inference time
StepPredict ==
    /\ \E s \in Busy, probability \in Probabilities,
          inference_time_ms \in Times :
         /\ NextStep(s) = "predict"
         /\ workers' = [workers EXCEPT ![s] =
                [@ EXCEPT !.at = @ + 1, !.computed = TRUE,
                          !.result = PredictorResult(probability),
                          !.inference_time_ms = inference_time_ms]]
    /\ UNCHANGED <<serviceVars, objectVars, scriptVars>>

\* log_prediction_to_file is entered: the file is opened, or opening raises
\* and the function returns
StepLogOpen ==
    /\ \E s \in Busy :
         /\ NextStep(s) = "log"
         /\ ~workers[s].logging
         /\ workers' = [workers EXCEPT ![s] =
                [@ EXCEPT !.logging = TRUE,
                          !.pending =
                              IF logWritable
                              THEN Writes(LogLine(
                                       workers[s].result.prediction,
                                       workers[s].result.prediction_label,
                                       workers[s].result.confidence,
                                       workers[s].inference_time_ms))
                              ELSE <<>>]]
    /\ UNCHANGED <<serviceVars, objectVars, scriptVars>>

\* one write call reaches the file
StepWrite ==
    /\ \E s \in Busy :
         /\ workers[s].logging
         /\ workers[s].pending # <<>>
         /\ log' = AppendText(log, Head(workers[s].pending))
         /\ workers' = [workers EXCEPT ![s] =
                [@ EXCEPT !.pending = Tail(@), !.appended = @ + 1]]
    /\ logExists' = TRUE
    /\ lastStats' = [lastStats EXCEPT !.count = 0]
    /\ UNCHANGED <<phase, artifact, model_inference, logWritable, req, resp,
                   calls, metrics, objectVars, scriptVars>>

\* log_prediction_to_file returns
StepLogReturn ==
    /\ \E s \in Busy :
         /\ workers[s].logging
         /\ workers[s].pending = <<>>
         /\ workers' = [workers EXCEPT ![s] =
                [@ EXCEPT !.logging = FALSE, !.logged = TRUE, !.at = @ + 1]]
    /\ UNCHANGED <<serviceVars, objectVars, scriptVars>>

\* return PredictionResponse(...): the envelope is constructed and returned
StepRespond ==
    /\ \E s \in Busy :
         /\ NextStep(s) = "respond"
         /\ workers' = [workers EXCEPT ![s] = Answered(@, 200)]
    /\ UNCHANGED <<serviceVars, objectVars, scriptVars>>

StepsNext ==
    \/ Receive
    \/ StepRead
    \/ StepPredict
    \/ StepLogOpen
    \/ StepWrite
    \/ StepLogReturn
    \/ StepRespond

SpecSteps == StepsInit /\ [][StepsNext]_vars

----------------------------------------------------------------------------
(* Degraded mode and startup *)

\* C1: while the model handle is absent or its is_loaded() is false, a
\* well-formed POST /predict and a well-formed POST /predict-base64 answer 503
\* with the "Model not loaded" detail and invoke neither the preprocessor nor
\* the predictor.
C1_NotLoadedAnswers503 ==
    ( /\ resp.endpoint \in PredictEndpoints
      /\ req.payload # "no_field"
      /\ (~model_inference.present \/ model_inference.model = "None") )
    => /\ resp.status = 503
       /\ resp.detail = "Model not loaded. Please try again later."
       /\ ~calls.predictor
       /\ ~calls.preprocess
       /\ ~calls.forward

C1_Witness ==
    /\ resp.endpoint = "/predict"
    /\ req.payload = "image"
    /\ ~model_inference.present
    /\ resp.status = 503

\* C2 as stated: the artifact being absent at startup, POST /predict answers
\* 503 "Model not loaded" to any payload, a body without the upload field
\* included.
C2_AnyPayload503 ==
    (resp.endpoint = "/predict" /\ artifact = "missing")
    => /\ resp.status = 503
       /\ resp.detail = "Model not loaded. Please try again later."

\* C2, amended: the artifact being absent at startup, POST /predict answers 503
\* "Model not loaded" to every body that carries the upload field, and 422 to
\* a body that lacks it (request validation answers before the handler runs).
C2_BoundPayload503 ==
    (resp.endpoint = "/predict" /\ artifact = "missing")
    => IF req.payload = "no_field"
       THEN resp.status = 422 /\ ~calls.predictor
       ELSE /\ resp.status = 503
            /\ resp.detail = "Model not loaded. Please try again later."

C2_Witness ==
    /\ resp.endpoint = "/predict"
    /\ artifact = "missing"
    /\ req.payload = "no_field"
    /\ resp.status = 422

\* C3: GET /health answers 200 in every service state, with model_loaded true
\* exactly when the handle exists and is loaded, and status "healthy" exactly
\* when model_loaded is true, "degraded" otherwise.
C3_HealthReflectsHandle ==
    resp.endpoint = "/health"
    => /\ resp.status = 200
       /\ resp.body.model_loaded =
              (model_inference.present /\ model_inference.model # "None")
       /\ resp.body.status =
              (IF resp.body.model_loaded THEN "healthy" ELSE "degraded")

C3_Witness ==
    /\ resp.endpoint = "/health"
    /\ artifact = "corrupt"
    /\ resp.body.status = "degraded"

\* C4: when loading the model at startup fails (file missing, weights
\* unreadable), the startup hook returns without raising, the service goes on
\* serving with the handle absent, and GET /health reports model_loaded false.
C4_LoadFailureKeepsServing ==
    (phase # "starting" /\ artifact # "ok")
    => /\ phase = "serving"
       /\ model_inference = None
       /\ (resp.endpoint = "/health"
           => resp.status = 200 /\ resp.body.model_loaded = FALSE)

C4_Witness ==
    /\ artifact = "corrupt"
    /\ phase = "serving"
    /\ resp.endpoint = "/health"
    /\ resp.body.model_loaded = FALSE

\* C5: once startup has finished, no request to any endpoint changes the
\* model handle.
C5_HandleFixedAfterStartup ==
    [][phase = "serving" => model_inference' = model_inference]_vars

C5_Witness ==
    /\ phase = "serving"
    /\ model_inference.present
    /\ resp.endpoint = "/predict-base64"
    /\ resp.status = 200
    /\ lastStats.count > 0

----------------------------------------------------------------------------
(* The prediction log and its statistics *)

\* the response envelope of a prediction, from what the predictor returned
\* and the measured time
Envelope(result, inference_time_ms) ==
    [prediction |-> result.prediction,
     prediction_label |-> result.prediction_label,
     probabilities |-> result.probabilities,
     confidence |-> result.confidence,
     inference_time_ms |-> inference_time_ms]

\* C6: when the append of the prediction record fails, the failure stays
\* inside the logger and the request still answers 200 with the prediction
\* fields it returns when the append succeeds: the envelope of the predictor's
\* result, whether or not the log could be written.
C6_LogFailureSwallowed ==
    calls.logger
    => /\ resp.status = 200
       /\ resp.body = Envelope(calls.result, calls.inference_time_ms)

C6_Witness ==
    /\ calls.logger
    /\ ~logWritable
    /\ resp.status = 200
    /\ resp.body.prediction_label = "Dog"

\* a line that is valid JSON, an object, and has prediction, confidence and
\* inference_time_ms
HasRecordKeys(entry) ==
    /\ ~entry.raised
    /\ entry.isDict
    /\ {"prediction", "confidence", "inference_time_ms"} \subseteq entry.keys

RecordLine(line) == HasRecordKeys(JsonLoads(Strip(line)))

\* C7 as stated: GET /stats never answers an error, and when the log file is
\* absent, empty, holds no parseable record, or reading it raises, it answers
\* 200 with total 0, both averages 0.0 and an empty distribution.
C7_StatsDegradeToZero ==
    resp.endpoint = "/stats"
    => /\ resp.status = 200
       /\ ( \/ ~logExists
            \/ \A i \in 1..Len(log) : ~RecordLine(log[i])
            \/ ReadPredictionStats(logExists, log).raised )
          => resp.body = ZeroStatsBody

\* C8 as stated: malformed lines are skipped one by one: the aggregates of any
\* log equal the aggregates of the same log with every malformed line (no
\* JSON, no object, or prediction / confidence / inference_time_ms missing)
\* removed.
C8_MalformedLinesSkipped ==
    resp.endpoint = "/stats"
    => resp.body = StatsBody(logExists, SelectSeq(log, RecordLine))

\* C9: a /stats call leaves the log as it is, and a /stats call with no
\* prediction logged since the one before returns the aggregates that one
\* returned.
C9_StatsIdempotent ==
    [][req'.endpoint = "/stats"
       => /\ log' = log
          /\ logExists' = logExists
          /\ (lastStats.count > 0 => resp'.body = lastStats.body)]_vars

C9_Witness ==
    /\ resp.endpoint = "/stats"
    /\ resp.status = 200
    /\ lastStats.count = 2
    /\ resp.body.total_predictions = 2

\* the accumulators after scanning the one line of a record
Contribution(result, inference_time_ms) ==
    [predictions |-> <<StrV(<<result.prediction_label>>)>>,
     confidences |-> <<FloatV(result.confidence)>>,
     inference_times |-> <<FloatV(inference_time_ms)>>,
     distribution |-> SetToBag({StrV(<<result.prediction_label>>)})]

ReadsBack(entry, result, inference_time_ms) ==
    /\ ~entry.raised
    /\ entry.isDict
    /\ {"prediction", "confidence", "inference_time_ms"} \subseteq entry.keys
    /\ entry.dict["prediction"] = IntV(result.prediction)
    /\ entry.dict["confidence"] = FloatV(result.confidence)
    /\ entry.dict["inference_time_ms"] = FloatV(inference_time_ms)

IsPrefix(s, t) == Len(s) <= Len(t) /\ SubSeq(t, 1, Len(s)) = s

\* C11: the log is append-only: no request to any endpoint rewrites, truncates
\* or deletes it, so what the log held before a step is the beginning of what
\* it holds after, and the file once there stays there.
C11_LogAppendOnly ==
    [][IsPrefix(log, log') /\ (logExists => logExists')]_vars

C11_Witness ==
    /\ Len(log) = 2
    /\ log[1] = TruncatedLine
    /\ log[2] = LogLine(0, "Cat", 95, 300)
    /\ calls.logger

RecordLines ==
    {JsonDumps(LogEntry(r.prediction, r.prediction_label, r.confidence, ms))
         \o <<NL>> :
     r \in {PredictorResult(probability) : probability \in Probabilities},
     ms \in Times}

\* C14: whatever the interleaving of concurrent prediction requests, every line
\* of the log is the complete JSON record of one request followed by a
\* newline, and a stats scan at any moment finds a record in every line: it
\* never sees a record written in part.
C14_NoPartialLines ==
    /\ \A i \in 1..Len(log) : log[i] \in RecordLines
    /\ Len(ScanLines(EmptyAcc, log).predictions) = Len(log)
    /\ Len(ScanLines(EmptyAcc, log).inference_times) = Len(log)

\* two requests in flight at once, each having written its line
C14_Witness ==
    /\ \A s \in Slots : workers[s].pc = "busy" /\ workers[s].appended = 1
    /\ Len(log) >= 2
    /\ log[Len(log)] # log[Len(log) - 1]

----------------------------------------------------------------------------
(* Malformed input *)

\* C15 as stated: the model being loaded, a prediction request whose input is
\* malformed (bytes that are no image, text that is no base64, an image that
\* cannot be converted) is answered with a 4xx status, never with a 5xx one.
C15_MalformedIsClientError ==
    ( /\ resp.endpoint \in PredictEndpoints
      /\ model_inference.present
      /\ model_inference.model = "loaded"
      /\ req.payload \in {"garbage", "bad_base64", "truncated"} )
    => resp.status \in 400..499

----------------------------------------------------------------------------
(* The predictor *)

\* C16: predict looks at the model on every call: when self.model is None at
\* the call, after earlier predictions that returned as well as before any,
\* predict raises RuntimeError and has neither preprocessed the input nor run
\* the network, in the binary and in the multi-class variant.
C16_PredictChecksModel ==
    (ret.op = "predict" /\ model_inference.model = "None")
    => /\ ret.raised
       /\ ret.exc = "RuntimeError"
       /\ ~ret.preprocess
       /\ ~ret.forward

C16_Witness ==
    /\ ret.op = "predict"
    /\ model_inference.model = "None"
    /\ history > 0
    /\ ret.exc = "RuntimeError"

\* C17: ModelInference on a path that does not exist raises FileNotFoundError
\* and gives no instance; an instance the constructor gives has its network
\* built, its weights loaded and eval mode set, so is_loaded() is true of it.
C17_ConstructorLoadsOrRaises ==
    ret.op = "__init__"
    => /\ artifact = "missing"
          => ret.raised /\ ret.exc = "FileNotFoundError"
       /\ ret.raised => ret.instance = None
       /\ ~ret.raised
          => /\ artifact # "missing"
             /\ ret.instance.present
             /\ ret.instance.model = "loaded"
             /\ ret.instance.model # "None"

C17_Witness ==
    /\ ret.op = "__init__"
    /\ artifact = "missing"
    /\ ret.exc = "FileNotFoundError"
    /\ ret.instance = None

\* C18: the binary predictor, on sigmoid probability p: class 1 exactly when
\* p > 0.5 (p = 0.5 is class 0), label Dog for class 1 and Cat for class 0,
\* confidence p for class 1 and 1 - p for class 0, probabilities Cat: 1 - p,
\* Dog: p.
C18_BinaryDecisionRule ==
    (ret.op = "predict" /\ variant = "binary" /\ ~ret.raised)
    => /\ ret.result.prediction = (IF ret.sigmoid > FHalf THEN 1 ELSE 0)
       /\ ret.result.prediction_label =
              (IF ret.result.prediction = 1 THEN "Dog" ELSE "Cat")
       /\ ret.result.confidence =
              (IF ret.result.prediction = 1 THEN ret.sigmoid
               ELSE FSub(FOne, ret.sigmoid))
       /\ ret.result.probabilities =
              [Cat |-> FSub(FOne, ret.sigmoid), Dog |-> ret.sigmoid]

C18_Witness ==
    /\ ret.op = "predict"
    /\ variant = "binary"
    /\ ret.sigmoid = FHalf
    /\ ret.result.prediction = 0
    /\ ret.result.prediction_label = "Cat"

\* the larger of two numbers
Larger(a, b) == IF a >= b THEN a ELSE b

\* C19: of every result of the binary predictor, probabilities['Cat'] +
\* probabilities['Dog'], added as Python adds floats, equals 1, and confidence
\* is the larger of the two probabilities, so at least 0.5.
C19_BinaryProbabilitiesSumToOne ==
    (ret.op = "predict" /\ variant = "binary" /\ ~ret.raised)
    => /\ FAdd(ret.result.probabilities.Cat, ret.result.probabilities.Dog)
              = FOne
       /\ ret.result.confidence =
              Larger(ret.result.probabilities.Cat,
                     ret.result.probabilities.Dog)
       /\ ret.result.confidence >= FHalf

\* a result whose Cat probability was rounded: the two add up to 1 only as
\* floats
C19_Witness ==
    /\ ret.op = "predict"
    /\ variant = "binary"
    /\ ~ret.raised
    /\ ret.sigmoid > 0
    /\ ret.result.probabilities.Cat = FOne
    /\ ret.result.confidence = FOne

\* prediction is an index of a largest entry, confidence is that entry, and
\* no entry is negative
ArgMaxOfReturned(r) ==
    /\ r.prediction \in 0..(Len(r.probabilities) - 1)
    /\ \A j \in 1..Len(r.probabilities) :
           /\ r.probabilities[j] <= r.probabilities[r.prediction + 1]
           /\ r.probabilities[j] >= 0
    /\ r.confidence = r.probabilities[r.prediction + 1]

\* C20 as stated: of every result of the multi-class predictor, prediction is
\* the arg-max index of probabilities, confidence is probabilities[prediction],
\* every probability is non-negative, and the probabilities sum to 1.
C20_MultiSumsToOne ==
    (ret.op = "predict" /\ variant = "multiclass" /\ ~ret.raised)
    => /\ ArgMaxOfReturned(ret.multi)
       /\ SumSeq(ret.multi.probabilities) = FOne

\* C20, amended: prediction is the arg-max index of probabilities, confidence
\* is probabilities[prediction], every probability is non-negative, and the
\* probabilities sum to 1 within the rounding of the float32 softmax (one unit
\* in the last place of a float32 per class), not exactly.
C20_MultiSumsToOneRounded ==
    (ret.op = "predict" /\ variant = "multiclass" /\ ~ret.raised)
    => /\ ArgMaxOfReturned(ret.multi)
       /\ (SumSeq(ret.multi.probabilities) - FOne) * (2 ^ SigBits)
              <= NumClasses * FOne
       /\ (FOne - SumSeq(ret.multi.probabilities)) * (2 ^ SigBits)
              <= NumClasses * FOne

C20_Witness ==
    /\ ret.op = "predict"
    /\ variant = "multiclass"
    /\ ~ret.raised
    /\ ret.multi.prediction = 1
    /\ SumSeq(ret.multi.probabilities) # FOne

----------------------------------------------------------------------------
(* Instrumentation and the response *)

\* C21 as stated: every request to any endpoint, whatever its status, adds
\* exactly one to the request counter under (path, method, final status) and
\* one observation to the latency histogram of its path; a prediction request
\* that obtained a predictor result adds exactly one to the prediction counter
\* under the predicted label, and any other request adds nothing to it.
C21_EveryRequestCounted ==
    resp.endpoint # ""
    => /\ metrics.requests =
              SetToBag({<<resp.endpoint, Method(resp.endpoint), resp.status>>})
       /\ metrics.latency = SetToBag({resp.endpoint})
       /\ metrics.predictions =
              (IF calls.forward
               THEN SetToBag({calls.result.prediction_label})
               ELSE EmptyBag)

\* the last line of the log as json.loads gives it
LastEntry == JsonLoads(Strip(log[Len(log)]))

----------------------------------------------------------------------------
(* Shapes, thresholds and value ranges *)

\* C23 as stated, for the multi-class variant: an array that is not 128x128x3
\* is rejected by predict with ValueError before the forward pass begins.
C23_OtherShapesRejected ==
    ( /\ variant = "multiclass"
      /\ ret.op = "predict"
      /\ ret.image_input \in {"bad_shape", "hwc3_64"}
      /\ is_loaded(model_inference) )
    => /\ ret.raised
       /\ ret.exc = "ValueError"
       /\ ~ret.forward

\* the dict in ret
Returns == IF variant = "binary" THEN ret.result ELSE ret.multi

\* C24: get_prediction_with_confidence calls predict once; when predict
\* returns, it returns every field of that result unchanged, the threshold it
\* was given, and high_confidence, which is true exactly when the confidence
\* is at least the threshold; when predict raises, the exception propagates
\* and nothing is returned.
C24_ConfidenceFlag ==
    ret.op = "get_prediction_with_confidence"
    => /\ ret.predict_calls = 1
       /\ IF ret.raised
          THEN /\ ret.exc \in {"RuntimeError", "ValueError", "TypeError"}
               /\ ~ret.flagged
               /\ ret.result = NoResult
               /\ ret.multi = NoMulti
          ELSE /\ ret.result = ret.predicted.result
               /\ ret.multi = ret.predicted.multi
               /\ Returns.prediction >= 0
               /\ ret.flagged
               /\ ret.threshold = ret.confidence_threshold
               /\ ret.high_confidence
                      <=> Returns.confidence >= ret.confidence_threshold

C24_Witness ==
    /\ ret.op = "get_prediction_with_confidence"
    /\ ~ret.raised
    /\ variant = "binary"
    /\ ret.result.confidence = (3 * FOne) \div 4
    /\ ret.threshold = ret.result.confidence
    /\ ret.high_confidence

\* the positions of the array
Positions == 1..Len(norm.image_array)

\* (max_val - min_val) + min_val as Python computes it
Top == FAdd(FSub(norm.max_val, norm.min_val), norm.min_val)

Constant == \A i, j \in Positions : norm.image_array[i] = norm.image_array[j]

\* C25 as stated: a constant array gives zeros; any other array keeps its
\* shape, its minimum maps to min_val, its maximum to max_val, every element
\* lies in [min_val, max_val] and the order of the elements is preserved.
C25_NormalizeExact ==
    norm.pc = "done"
    => /\ Len(norm.result) = Len(norm.image_array)
       /\ IF Constant
          THEN \A i \in Positions : norm.result[i] = 0
          ELSE \A i \in Positions :
                 /\ norm.image_array[i] = ArrayMin(norm.image_array)
                      => norm.result[i] = norm.min_val
                 /\ norm.image_array[i] = ArrayMax(norm.image_array)
                      => norm.result[i] = norm.max_val
                 /\ norm.min_val <= norm.result[i]
                 /\ norm.result[i] <= norm.max_val
                 /\ \A j \in Positions :
                      norm.image_array[i] <= norm.image_array[j]
                          => norm.result[i] <= norm.result[j]

\* C25, amended: a constant array gives zeros; any other array keeps its
\* shape, its minimum maps to min_val, its maximum to (max_val - min_val) +
\* min_val as floating point computes it, which is max_val whenever
\* max_val - min_val is exact, every element lies between the images of the
\* minimum and the maximum, and the order of the elements is preserved.
C25_NormalizeRounded ==
    norm.pc = "done"
    => /\ Len(norm.result) = Len(norm.image_array)
       /\ FSub(norm.max_val, norm.min_val) = norm.max_val - norm.min_val
              => Top = norm.max_val
       /\ IF Constant
          THEN \A i \in Positions : norm.result[i] = 0
          ELSE \A i \in Positions :
                 /\ norm.image_array[i] = ArrayMin(norm.image_array)
                      => norm.result[i] = norm.min_val
                 /\ norm.image_array[i] = ArrayMax(norm.image_array)
                      => norm.result[i] = Top
                 /\ norm.min_val <= norm.result[i]
                 /\ norm.result[i] <= Top
                 /\ \A j \in Positions :
                      norm.image_array[i] <= norm.image_array[j]
                          => norm.result[i] <= norm.result[j]

C25_Witness ==
    /\ norm.pc = "done"
    /\ norm.image_array = <<0, 1, 3>>
    /\ norm.min_val = 0 - FOne
    /\ norm.max_val = 3 * (FOne \div 32)
    /\ norm.result[1] = norm.min_val
    /\ norm.result[1] < norm.result[2]
    /\ norm.result[2] < norm.result[3]

----------------------------------------------------------------------------
(* The aggregates among themselves *)

\* the lists read_prediction_stats has filled when its loop ends
Scanned == ScanLines(EmptyAcc, log)

\* C26 as stated: for every content of the log the aggregates of /stats agree
\* with each other: total_predictions is the sum of the class_distribution
\* counts, and both averages are taken over exactly the total_predictions
\* records, a line being counted in all four aggregates or in none.
C26_AggregatesConsistent ==
    resp.endpoint = "/stats"
    => /\ resp.status = 200
          => resp.body.total_predictions
                 = BagCardinality(resp.body.class_distribution)
       /\ logExists
          => /\ Len(Scanned.confidences) = Len(Scanned.predictions)
             /\ Len(Scanned.inference_times) = Len(Scanned.predictions)
             /\ BagCardinality(Scanned.distribution)
                    = Len(Scanned.predictions)

----------------------------------------------------------------------------
(* Reloading *)

\* C27 as stated: whatever load_model() calls were made, is_loaded() is true
\* only of an instance whose model had its weights loaded and was put in eval
\* mode: a load_model() that fails leaves the model loaded before, never a new
\* network without weights.
C27_LoadedMeansWeights ==
    (model_inference.present /\ is_loaded(model_inference))
    => model_inference.model = "loaded"

----------------------------------------------------------------------------
(* Model information *)

----------------------------------------------------------------------------
(* The scripts *)

\* the largest of the accuracies seen so far
MaxSoFar ==
    CHOOSE a \in {train.val_accs[i] : i \in 1..Len(train.val_accs)} :
        \A i \in 1..Len(train.val_accs) : train.val_accs[i] <= a

\* the first epoch that reached it
FirstBest ==
    CHOOSE i \in 1..Len(train.val_accs) :
        /\ train.val_accs[i] = MaxSoFar
        /\ \A j \in 1..(i - 1) : train.val_accs[j] < MaxSoFar

\* C29 as stated: after each epoch best_val_acc is the largest validation
\* accuracy so far and the best checkpoint holds the model state of the first
\* epoch that reached it; in every run of one epoch or more, whatever the
\* accuracies (all 0.0 included), a best checkpoint has been saved and its
\* path is defined when the final evaluation loads it.
C29_BestCheckpoint ==
    (train.pc # "off" /\ train.epoch >= 1)
    => /\ train.best_val_acc = MaxSoFar
       /\ train.checkpoint = FirstBest
       /\ train.best_model_path # "unbound"
       /\ train.pc # "raised"
       /\ train.pc = "evaluated" => train.loaded = FirstBest

\* the items taken so far
Taken == SubSeq(extract.dataset, 1, extract.idx)

\* how many of the items taken have this label
Count(label) == Cardinality({i \in 1..Len(Taken) : Taken[i] = label})

\* the smaller of two numbers
Least(a, b) == IF a <= b THEN a ELSE b

\* the numbers 0 .. n - 1 in order
UpTo(n) == [i \in 1..n |-> i - 1]

\* C30: at every point of extract_images neither count exceeds max_per_class;
\* an item whose label is neither cat (3) nor dog (5) writes nothing; the
\* files of a class are numbered 0 .. count - 1 in order, no number twice; no
\* item is taken once both counts have reached max_per_class at the end of a
\* loop body; and the counts returned are the numbers of files written.
C30_ExtractCounts ==
    extract.pc # "off"
    => /\ extract.cat_count <= extract.max_per_class
       /\ extract.dog_count <= extract.max_per_class
       /\ extract.cats = UpTo(extract.cat_count)
       /\ extract.dogs = UpTo(extract.dog_count)
       /\ extract.cat_count = Least(Count(3), extract.max_per_class)
       /\ extract.dog_count = Least(Count(5), extract.max_per_class)
       /\ extract.idx > 0
          => (extract.broke
                <=> /\ extract.cat_count >= extract.max_per_class
                    /\ extract.dog_count >= extract.max_per_class)
       /\ extract.pc = "returned"
          => /\ extract.returned = <<Len(extract.cats), Len(extract.dogs)>>
             /\ extract.broke \/ extract.idx = Len(extract.dataset)

C30_Witness ==
    /\ extract.pc = "returned"
    /\ extract.dataset = <<3, 7, 3, 5>>
    /\ extract.max_per_class = 1
    /\ extract.returned = <<1, 1>>
    /\ extract.broke
    /\ extract.cats = <<0>>

====
